---- MODULE Spec2Model ----
(***************************************************************************)
(* Model of server/compile_server.py: the /compile request handler that    *)
(* validates a submission, probes the Kotlin compiler and the Java         *)
(* runtime, stages the source in a temporary directory, compiles it, runs  *)
(* the jar and answers with one JSON Outcome.                              *)
(*                                                                         *)
(* Each request is a handler thread with its own locals (functions over    *)
(* Handlers); the file system namespace of temporary directories and the   *)
(* process environment (os.name, PATH) are shared.  A child process is     *)
(* awaited in a state of its own: it may exit, the runner's timer may      *)
(* expire, or neither may ever happen for the child alone.                 *)
(***************************************************************************)
EXTENDS Integers, Sequences, FiniteSets, TLC

\* ---------------------------------------------------------------- bounds
NumReq == 1          \* handler threads (requests that may be in flight)
MaxBodyLen == 1      \* length of a request body, in bytes

\* ------------------------------------------------------ program constants
DefaultTimeout == 20     \* run(cmd, timeout=20, ...)
ProbeTimeout   == 8      \* tool_ok: run([tool, *args], timeout=8)
CompileTimeout == 30     \* compile step: timeout=30
RunTimeout     == 15     \* execute step: timeout=15

Req == 1..NumReq
\* The two handler threads of the specifications of two requests (SpecPair:
\* in flight together; SpecSeq: one after the other).
Pair == {1, 2}
Handlers == Req \cup Pair
DirNames == Handlers     \* names mkdtemp may hand out (one per request suffices)

\* Bytes a body is made of: a space and 0xFF (a byte no UTF-8 text contains).
Bytes == {32, 255}
Bodies == UNION {[1..n -> Bytes] : n \in 0..MaxBodyLen}

\* What a child may write to <<stdout, stderr>>: nothing, the letter x on one
\* of the two, or the byte 0xFF (which no UTF-8 text contains); and the exit
\* codes it may give (negative: killed by a signal).
Streams == {<< <<>>, <<>> >>, << <<120>>, <<>> >>, << <<>>, <<120>> >>,
            << <<255>>, <<>> >>}
ExitCodes == {-1, 0, 1}

\* ------------------------------------------------------------- text model
\* request.data.decode("utf-8", errors="replace") on bodies over Bytes and
\* two-byte sequences: an ASCII byte is its own code point, a lead byte
\* 0xC2..0xDF with a continuation byte is one code point, any other byte
\* is replaced by U+FFFD.
RECURSIVE Decode(_)
Decode(b) ==
    IF b = <<>> THEN <<>>
    ELSE IF b[1] < 128 THEN <<b[1]>> \o Decode(Tail(b))
    ELSE IF /\ b[1] \in 194..223
            /\ Len(b) >= 2
            /\ b[2] \in 128..191
         THEN <<(b[1] - 192) * 64 + (b[2] - 128)>> \o Decode(Tail(Tail(b)))
    ELSE <<65533>> \o Decode(Tail(b))

\* str.isspace() for one code point.
IsSpace(c) ==
    \/ c \in 9..13
    \/ c \in 28..32
    \/ c \in {133, 160, 5760, 8232, 8233, 8239, 8287, 12288}
    \/ c \in 8192..8202

RECURSIVE LStrip(_)
LStrip(t) == IF t # <<>> /\ IsSpace(t[1]) THEN LStrip(Tail(t)) ELSE t

RECURSIVE RStrip(_)
RStrip(t) ==
    IF t # <<>> /\ IsSpace(t[Len(t)]) THEN RStrip(SubSeq(t, 1, Len(t) - 1)) ELSE t

\* Variant: the test is `if not code`.
Strip_Omitted(t) == t
\* code.strip()
Strip(t) == RStrip(LStrip(t))

\* ------------------------------------------------------- Python values
\* How a call ends: it returns a value or raises.
Exc(type, msg) == [type |-> type, msg |-> msg]
Ret(v)   == [kind |-> "ret", val |-> v, exc |-> Exc("", "")]
Raise(e) == [kind |-> "raise", val |-> <<>>, exc |-> e]

\* subprocess.run(..., capture_output=True, text=True): a captured stream is
\* decoded strictly (a byte that is no UTF-8 raises UnicodeDecodeError) and
\* read with universal newlines (\r\n and \r become \n).
HasInvalidByte(b) == \E i \in 1..Len(b) : b[i] >= 128

RECURSIVE TranslateNewlines(_)
TranslateNewlines(b) ==
    IF b = <<>> THEN <<>>
    ELSE IF b[1] = 13 /\ Len(b) >= 2 /\ b[2] = 10
         THEN <<10>> \o TranslateNewlines(Tail(Tail(b)))
    ELSE IF b[1] = 13 THEN <<10>> \o TranslateNewlines(Tail(b))
    ELSE <<b[1]>> \o TranslateNewlines(Tail(b))

\* The text of ASCII bytes, as a string.
CharOf(c) ==
    CASE c = 10  -> "\n"
      [] c = 32  -> " "
      [] c = 120 -> "x"
      [] OTHER   -> "?"

RECURSIVE AsString(_)
AsString(t) == IF t = <<>> THEN "" ELSE CharOf(t[1]) \o AsString(Tail(t))

CaptureText(b) ==
    IF HasInvalidByte(b)
    THEN Raise(Exc("UnicodeDecodeError", "'utf-8' codec can't decode byte"))
    ELSE Ret(AsString(TranslateNewlines(b)))

PyBool(b) == [t |-> "bool", b |-> b, s |-> ""]
PyStr(s)  == [t |-> "str", b |-> FALSE, s |-> s]
Truthy(v) == IF v.t = "bool" THEN v.b ELSE v.s # ""
\* a or b
PyOr(a, b) == IF Truthy(a) THEN a ELSE b

\* The classes an except clause matches an exception by.
Bases(type) ==
    CASE type = "TimeoutExpired"    -> {"TimeoutExpired", "SubprocessError", "Exception"}
      [] type = "FileNotFoundError" -> {"FileNotFoundError", "OSError", "Exception"}
      [] type = "PermissionError"   -> {"PermissionError", "OSError", "Exception"}
      [] type = "OSError"           -> {"OSError", "Exception"}
      [] type = "UnicodeDecodeError" -> {"UnicodeDecodeError", "ValueError", "Exception"}
      [] OTHER                      -> {type}
IsInstance(e, cls) == cls \in Bases(e.type)

\* ------------------------------------------------------------------ state
VARIABLES
    os_name,      \* os.name of the server process
    PATH,         \* executables shutil.which finds on the search path
    fs,           \* temporary directories that exist: name -> contents
    pc,           \* per request: where its handler is
    code,         \* per request: the decoded submission
    kotlinc_bin,  \* per request: resolved compiler command
    java_bin,     \* per request: resolved runtime command
    avail,        \* per request: what each probe reported
    tmp,          \* per request: its temporary directory (0: none yet)
    child,        \* per request: the child process run() waits on, if any
    comp,         \* per request: (comp_rc, comp_out, comp_err), once returned
    ran,          \* per request: (run_rc, run_out, run_err), once returned
    log,          \* per request: the operations performed, in order
    exits,        \* per request: exit codes of the compile and execute children
    fault,        \* per request: the failures that struck it, in order
    resp          \* per request: the responses sent to the client

vars == <<os_name, PATH, fs, pc, code, kotlinc_bin, java_bin, avail, tmp,
          child, comp, ran, log, exits, fault, resp>>

\* ------------------------------------------------------- leaf operations
\* which(exe): shutil.which(exe) or exe
which(exe) == IF exe \in PATH THEN "/path/" \o exe ELSE exe

\* Popen can start argv0 only if it names an executable that exists.
CanSpawn(argv0) == \E e \in PATH : argv0 = "/path/" \o e

\* run(): what it gives back once the child has exited with code rc, having
\* written the bytes outb and errb.
RunReturn(rc, outb, errb) ==
    LET o == CaptureText(outb)
        e == CaptureText(errb)
    IN  IF o.kind = "raise" THEN Raise(o.exc)
        ELSE IF e.kind = "raise" THEN Raise(e.exc)
        ELSE Ret([rc |-> rc, out |-> o.val, err |-> e.val])

\* run(): the exception subprocess.run raises when the timer expires.
RunTimeoutExpired(c) ==
    Exc("TimeoutExpired",
        "Command '" \o c.argv0 \o "' timed out after "
            \o ToString(c.timeout[1]) \o " seconds")

\* Variant: run() does not hand its timeout to subprocess.run.
RunTimeoutParam_NotPassedOn(arg) == <<>>
\* run(cmd, timeout=20): the timeout subprocess.run gets for a call that
\* passes `arg` (<<>>: the call passes none); <<>> would be no timeout.
RunTimeoutParam(arg) == IF arg = <<>> THEN <<DefaultTimeout>> ELSE arg

\* Variant: `except OSError` in tool_ok.
tool_ok_CatchesOSErrorOnly(c) ==
    IF c.kind = "raise"
    THEN IF IsInstance(c.exc, "OSError") THEN Ret(PyBool(FALSE)) ELSE Raise(c.exc)
    ELSE Ret(PyOr(PyOr(PyBool(c.val.rc = 0), PyStr(c.val.out)), PyStr(c.val.err)))

\* tool_ok(tool, *args), given how its call of run() ended.
tool_ok(c) ==
    IF c.kind = "raise"
    THEN IF IsInstance(c.exc, "Exception") THEN Ret(PyBool(FALSE)) ELSE Raise(c.exc)
    ELSE Ret(PyOr(PyOr(PyBool(c.val.rc = 0), PyStr(c.val.out)), PyStr(c.val.err)))

\* ---------------------------------------------------------------- Outcomes
Outcome(ok, phase, stdout, stderr, exitCode) ==
    [ok |-> ok, phase |-> phase, stdout |-> stdout, stderr |-> stderr,
     exitCode |-> exitCode]

EmptySource == Outcome(FALSE, "client", "", "Empty source received.", -1)
KotlincMissing ==
    Outcome(FALSE, "client", "",
            "kotlinc not available. Install Kotlin compiler and add it to PATH.", -1)
JavaMissing ==
    Outcome(FALSE, "client", "",
            "java not available. Install JDK 17+ and add it to PATH.", -1)
CompileFailed(res) == Outcome(FALSE, "compile", res.out, res.err, res.rc)
\* Variant: the run Outcome says ok whatever the exit code.
RunFinished_OkAlways(res) == Outcome(TRUE, "run", res.out, res.err, res.rc)
RunFinished(res) == Outcome(res.rc = 0, "run", res.out, res.err, res.rc)
\* Variant: a timeout is reported under the step's own phase.
TimeoutOutcome_AsCompile(te) ==
    Outcome(FALSE, "compile", "", "TimeoutExpired: " \o te.msg, -1)
TimeoutOutcome(te) == Outcome(FALSE, "server", "", "TimeoutExpired: " \o te.msg, -1)
\* Variant: the Outcome of an unexpected exception carries exit code 0.
ErrorOutcome_ExitZero(e) == Outcome(FALSE, "server", "", e.type \o ": " \o e.msg, 0)
ErrorOutcome(e) == Outcome(FALSE, "server", "", e.type \o ": " \o e.msg, -1)

\* ------------------------------------------------- the handler's control
\* The part of the state one step of request r may change.
Cur(r) ==
    [pc |-> pc[r], resp |-> <<>>, fs |-> fs, avail |-> avail[r], tmp |-> tmp[r],
     comp |-> comp[r], ran |-> ran[r], ev |-> <<>>, exits |-> exits[r],
     fault |-> fault[r]]

Apply(r, n) ==
    /\ pc' = [pc EXCEPT ![r] = n.pc]
    /\ resp' = [resp EXCEPT ![r] = @ \o n.resp]
    /\ fs' = n.fs
    /\ avail' = [avail EXCEPT ![r] = n.avail]
    /\ tmp' = [tmp EXCEPT ![r] = n.tmp]
    /\ comp' = [comp EXCEPT ![r] = n.comp]
    /\ ran' = [ran EXCEPT ![r] = n.ran]
    /\ log' = [log EXCEPT ![r] = @ \o n.ev]
    /\ exits' = [exits EXCEPT ![r] = n.exits]
    /\ fault' = [fault EXCEPT ![r] = n.fault]

\* return jsonify(o), 200
Return(s, o) ==
    [s EXCEPT !.pc = "done", !.resp = <<[status |-> 200, body |-> <<o>>]>>]

\* An exception nothing catches leaves compile_code: the framework answers 500.
Propagate(s, e) ==
    [s EXCEPT !.pc = "done", !.resp = <<[status |-> 500, body |-> <<>>]>>]

\* Variant: only `except subprocess.TimeoutExpired`.
Except_TimeoutOnly(s, e) ==
    IF IsInstance(e, "TimeoutExpired") THEN Return(s, TimeoutOutcome(e))
    ELSE Propagate(s, e)

\* The except clauses of compile_code.
Except(s, e) ==
    IF IsInstance(e, "TimeoutExpired") THEN Return(s, TimeoutOutcome(e))
    ELSE IF IsInstance(e, "Exception") THEN Return(s, ErrorOutcome(e))
    ELSE Propagate(s, e)

\* Variant: the directory is made with mkdtemp and never removed.
ExitWith_NoRemoval(s, c, td) ==
    IF c.kind = "ret" THEN Return(s, c.val) ELSE Except(s, c.exc)

\* Variant: TemporaryDirectory(ignore_cleanup_errors=True); a removal that
\* fails leaves the directory and the pending completion stands.
ExitWith_IgnoresRemovalError(s, c, td) ==
    LET s1 == [s EXCEPT !.ev = @ \o <<"rmtree">>,
                        !.fault = IF td # <<>> THEN Append(@, "rmtree") ELSE @,
                        !.fs = IF td # <<>> THEN @
                               ELSE [d \in DOMAIN s.fs \ {s.tmp} |-> s.fs[d]]]
    IN  IF c.kind = "ret" THEN Return(s1, c.val) ELSE Except(s1, c.exc)

\* Leaving `with tempfile.TemporaryDirectory() as tmp:` with the completion c
\* pending.  td is <<>> when the removal succeeds and <<e>> when it raises e;
\* a removal that raises leaves the directory in place and e replaces c.
ExitWith(s, c, td) ==
    LET s1 == [s EXCEPT !.ev = @ \o <<"rmtree">>]
        s2 == [s1 EXCEPT !.fs = [d \in DOMAIN s.fs \ {s.tmp} |-> s.fs[d]]]
    IN  IF td # <<>> THEN Except([s1 EXCEPT !.fault = Append(@, "rmtree")], td[1])
        ELSE IF c.kind = "ret" THEN Return(s2, c.val)
        ELSE Except(s2, c.exc)

\* Variant: the result of tool_ok is noted but not acted on.
AfterProbe_Proceeds(s, tool, next, missing, c) ==
    LET t == tool_ok(c)
    IN  IF t.kind = "raise" THEN Propagate(s, t.exc)
        ELSE [s EXCEPT !.avail[tool] = IF Truthy(t.val) THEN "yes" ELSE "no",
                       !.pc = next]

\* Variant: tool_ok has no try of its own and the probes are made inside the
\* try block of compile_code.
AfterProbe_InsideTry(s, tool, next, missing, c) ==
    IF c.kind = "raise" THEN Except([s EXCEPT !.avail[tool] = "no"], c.exc)
    ELSE IF ~Truthy(tool_ok(c).val)
         THEN Return([s EXCEPT !.avail[tool] = "no"], missing)
    ELSE [s EXCEPT !.avail[tool] = "yes", !.pc = next]

\* `if not tool_ok(...)`: c is how run() ended inside tool_ok.
AfterProbe(s, tool, next, missing, c) ==
    LET t == tool_ok(c)
    IN  IF t.kind = "raise" THEN Propagate(s, t.exc)
        ELSE IF ~Truthy(t.val)
             THEN Return([s EXCEPT !.avail[tool] = "no"], missing)
        ELSE [s EXCEPT !.avail[tool] = "yes", !.pc = next]

\* Variant: no `if comp_rc != 0`; the execute step follows any compile that
\* returned.
AfterCompile_RunsWhateverExit(s, c, td) ==
    IF c.kind = "raise" THEN ExitWith(s, Raise(c.exc), td)
    ELSE [s EXCEPT !.comp = <<c.val>>, !.pc = "run",
                   !.fs[s.tmp].jar = IF c.val.rc = 0 THEN <<s.fs[s.tmp].src>> ELSE @]

\* Variant: jar_path is not under tmp; the jar lands in the server's working
\* directory (name 0), which nothing removes.
AfterCompile_JarOutsideTmp(s, c, td) ==
    IF c.kind = "raise" THEN ExitWith(s, Raise(c.exc), td)
    ELSE LET s1 == [s EXCEPT !.comp = <<c.val>>]
         IN  IF c.val.rc # 0 THEN ExitWith(s1, Ret(CompileFailed(c.val)), td)
             ELSE [s1 EXCEPT !.pc = "run",
                             !.fs = [x \in DOMAIN s.fs \cup {0} |->
                                       IF x = 0
                                       THEN [by |-> 0, src |-> <<>>,
                                             jar |-> <<s.fs[s.tmp].src>>]
                                       ELSE s.fs[x]]]

\* The compile step, from the return of run() on.  A compiler that exits 0
\* has written the jar.
AfterCompile(s, c, td) ==
    IF c.kind = "raise" THEN ExitWith(s, Raise(c.exc), td)
    ELSE LET s1 == [s EXCEPT !.comp = <<c.val>>]
         IN  IF c.val.rc # 0 THEN ExitWith(s1, Ret(CompileFailed(c.val)), td)
             ELSE [s1 EXCEPT !.pc = "run",
                             !.fs[s.tmp].jar = <<s.fs[s.tmp].src>>]

\* The execute step, from the return of run() on.
AfterRun(s, c, td) ==
    IF c.kind = "raise" THEN ExitWith(s, Raise(c.exc), td)
    ELSE ExitWith([s EXCEPT !.ran = <<c.val>>], Ret(RunFinished(c.val)), td)

\* The handler of request r goes on after its call of run() ended as c.
Resume(r, s, c, td) ==
    CASE pc[r] = "probe_kotlinc" ->
            AfterProbe(s, "kotlinc", "probe_java", KotlincMissing, c)
      [] pc[r] = "probe_java" -> AfterProbe(s, "java", "stage", JavaMissing, c)
      [] pc[r] = "compile" -> AfterCompile(s, c, td)
      [] pc[r] = "run" -> AfterRun(s, c, td)

Sites == {"probe_kotlinc", "probe_java", "compile", "run"}

\* The command and the timeout of the run() call at each site.
SiteArgv0(r) ==
    IF pc[r] \in {"probe_kotlinc", "compile"} THEN kotlinc_bin[r] ELSE java_bin[r]

\* Variant: the execute step calls run() without a timeout argument.
SiteTimeout_RunOmitsTimeout(site) ==
    CASE site \in {"probe_kotlinc", "probe_java"} -> RunTimeoutParam(<<ProbeTimeout>>)
      [] site = "compile" -> RunTimeoutParam(<<CompileTimeout>>)
      [] site = "run" -> RunTimeoutParam(<<>>)

SiteTimeout(site) ==
    CASE site \in {"probe_kotlinc", "probe_java"} -> RunTimeoutParam(<<ProbeTimeout>>)
      [] site = "compile" -> RunTimeoutParam(<<CompileTimeout>>)
      [] site = "run" -> RunTimeoutParam(<<RunTimeout>>)

\* Failures of the environment.
SpawnErrors(argv0) ==
    IF CanSpawn(argv0)
    THEN {Exc("OSError", "cannot start process")}
    ELSE {Exc("FileNotFoundError", "No such file or directory: '" \o argv0 \o "'")}
StageErrors == {Exc("OSError", "No space left on device")}
\* Results of removing the workspace: done, or an error.
Removals == {<<>>, <<Exc("PermissionError", "cannot remove workspace")>>}
\* Only the compile and execute steps run inside the with block.
RemovalsAt(site) == IF site \in {"compile", "run"} THEN Removals ELSE {<<>>}

\* mkdtemp draws names until it finds one that does not exist.
FreshNames_Reused == DirNames
FreshNames == DirNames \ DOMAIN fs

\* ------------------------------------------------------------------- Init
\* The compiler's executable name on this platform.
KotlincExe(os) == IF os = "nt" THEN "kotlinc.bat" ELSE "kotlinc"

Init ==
    /\ os_name \in {"posix", "nt"}
    /\ PATH \in SUBSET {KotlincExe(os_name), "java"}
    /\ fs = <<>>
    /\ pc = [r \in Handlers |-> "idle"]
    /\ code = [r \in Handlers |-> <<>>]
    /\ kotlinc_bin = [r \in Handlers |-> ""]
    /\ java_bin = [r \in Handlers |-> ""]
    /\ avail = [r \in Handlers |-> [kotlinc |-> "unknown", java |-> "unknown"]]
    /\ tmp = [r \in Handlers |-> 0]
    /\ child = [r \in Handlers |-> <<>>]
    /\ comp = [r \in Handlers |-> <<>>]
    /\ ran = [r \in Handlers |-> <<>>]
    /\ log = [r \in Handlers |-> <<>>]
    /\ exits = [r \in Handlers |-> <<>>]
    /\ fault = [r \in Handlers |-> <<>>]
    /\ resp = [r \in Handlers |-> <<>>]

\* ---------------------------------------------------------------- actions
\* A request arrives: code = request.data.decode("utf-8", errors="replace")
Receive(r) ==
    /\ pc[r] = "idle"
    /\ \E body \in Bodies : code' = [code EXCEPT ![r] = Decode(body)]
    /\ pc' = [pc EXCEPT ![r] = "validate"]
    /\ UNCHANGED <<os_name, PATH, fs, kotlinc_bin, java_bin, avail, tmp, child,
                   comp, ran, log, exits, fault, resp>>

\* `if not code.strip()`, then the resolution of the tool names.
ClientValidate(r) ==
    /\ pc[r] = "validate"
    /\ IF Strip(code[r]) = <<>>
       THEN /\ Apply(r, Return(Cur(r), EmptySource))
            /\ UNCHANGED <<kotlinc_bin, java_bin>>
       ELSE /\ kotlinc_bin' = [kotlinc_bin EXCEPT ![r] = which(KotlincExe(os_name))]
            /\ java_bin' = [java_bin EXCEPT ![r] = which("java")]
            /\ Apply(r, [Cur(r) EXCEPT !.pc = "probe_kotlinc"])
    /\ UNCHANGED <<os_name, PATH, code, child>>

\* run() starts the child of the current step and begins to wait for it.
Spawn(r) ==
    /\ pc[r] \in Sites
    /\ child[r] = <<>>
    /\ CanSpawn(SiteArgv0(r))
    /\ child' = [child EXCEPT ![r] =
                    <<[argv0 |-> SiteArgv0(r), timeout |-> SiteTimeout(pc[r])]>>]
    /\ log' = [log EXCEPT ![r] = Append(@, pc[r])]
    /\ UNCHANGED <<os_name, PATH, fs, pc, code, kotlinc_bin, java_bin, avail, tmp,
                   comp, ran, exits, fault, resp>>

\* run() cannot start the child: subprocess.run raises.
SpawnFail(r) ==
    /\ pc[r] \in Sites
    /\ child[r] = <<>>
    /\ \E e \in SpawnErrors(SiteArgv0(r)), td \in RemovalsAt(pc[r]) :
          Apply(r, Resume(r, [Cur(r) EXCEPT !.ev = <<pc[r]>>,
                                            !.fault = Append(@, "spawn:" \o pc[r])],
                          Raise(e), td))
    /\ UNCHANGED <<os_name, PATH, code, kotlinc_bin, java_bin, child>>

\* The child exits within the timeout; run() returns or fails to decode.
ChildExit(r) ==
    /\ child[r] # <<>>
    /\ \E rc \in ExitCodes, io \in Streams, td \in RemovalsAt(pc[r]) :
          LET c == RunReturn(rc, io[1], io[2])
              s == [Cur(r) EXCEPT
                      !.exits = IF pc[r] \in {"compile", "run"}
                                THEN Append(@, [site |-> pc[r], rc |-> rc]) ELSE @,
                      !.fault = IF c.kind = "raise"
                                THEN Append(@, "decode:" \o pc[r]) ELSE @]
          IN  Apply(r, Resume(r, s, c, td))
    /\ child' = [child EXCEPT ![r] = <<>>]
    /\ UNCHANGED <<os_name, PATH, code, kotlinc_bin, java_bin>>

\* The timer of run() expires first: the child is killed, TimeoutExpired raised.
TimeoutExpire(r) ==
    /\ child[r] # <<>>
    /\ child[r][1].timeout # <<>>
    /\ \E td \in RemovalsAt(pc[r]) :
          Apply(r, Resume(r, [Cur(r) EXCEPT !.fault = Append(@, "timeout:" \o pc[r])],
                          Raise(RunTimeoutExpired(child[r][1])), td))
    /\ child' = [child EXCEPT ![r] = <<>>]
    /\ UNCHANGED <<os_name, PATH, code, kotlinc_bin, java_bin>>

\* tempfile.TemporaryDirectory() and the write of Main.kt into it.
Stage(r) ==
    /\ pc[r] = "stage"
    /\ \/ \E e \in StageErrors :
             Apply(r, Except([Cur(r) EXCEPT !.ev = <<"mkdtemp">>,
                                            !.fault = Append(@, "mkdtemp")], e))
       \/ \E d \in FreshNames :
             LET made == [x \in DOMAIN fs \cup {d} |->
                            IF x = d THEN [by |-> r, src |-> <<>>, jar |-> <<>>]
                            ELSE fs[x]]
                 s == [Cur(r) EXCEPT !.tmp = d, !.fs = made,
                                     !.ev = <<"mkdtemp", "write">>]
             IN  \/ Apply(r, [s EXCEPT !.pc = "compile",
                                       !.fs[d].src = <<code[r]>>])
                 \/ \E e \in StageErrors, td \in Removals :
                       Apply(r, ExitWith([s EXCEPT !.fault = Append(@, "write")],
                                         Raise(e), td))
    /\ UNCHANGED <<os_name, PATH, code, kotlinc_bin, java_bin, child>>

Next ==
    \E r \in Req :
        \/ Receive(r)
        \/ ClientValidate(r)
        \/ Spawn(r)
        \/ SpawnFail(r)
        \/ ChildExit(r)
        \/ TimeoutExpire(r)
        \/ Stage(r)

Spec == Init /\ [][Next]_vars

\* The handler thread keeps running and the timer of run() fires when due;
\* nothing obliges a request to arrive or a child to exit.
Fairness ==
    \A r \in Req :
        WF_vars(ClientValidate(r) \/ Spawn(r) \/ SpawnFail(r) \/ Stage(r)
                \/ TimeoutExpire(r))

SpecLive == Init /\ [][Next]_vars /\ Fairness

\* Two requests served by two threads, in any interleaving.
NextPair ==
    \E r \in Pair :
        \/ Receive(r)
        \/ ClientValidate(r)
        \/ Spawn(r)
        \/ SpawnFail(r)
        \/ ChildExit(r)
        \/ TimeoutExpire(r)
        \/ Stage(r)

SpecPair == Init /\ [][NextPair]_vars

\* Two requests one after the other: a request arrives only when no other
\* is in flight.
SeqReceive(r) ==
    /\ \A q \in Handlers \ {r} : pc[q] \in {"idle", "done"}
    /\ Receive(r)

NextSeq ==
    \E r \in Pair :
        \/ SeqReceive(r)
        \/ ClientValidate(r)
        \/ Spawn(r)
        \/ SpawnFail(r)
        \/ ChildExit(r)
        \/ TimeoutExpire(r)
        \/ Stage(r)

SpecSeq == Init /\ [][NextSeq]_vars

\* ----------------------------------------------------- properties: helpers
Done(r) == pc[r] = "done"
\* The request was answered once, with status 200 and an Outcome.
Answered(r) ==
    /\ Len(resp[r]) = 1
    /\ resp[r][1].status = 200
    /\ resp[r][1].body # <<>>
TheOutcome(r) == resp[r][1].body[1]
Did(r, op) == \E i \in DOMAIN log[r] : log[r][i] = op
Struck(r, f) == \E i \in DOMAIN fault[r] : fault[r][i] = f
OwnDirs(r) == {d \in DOMAIN fs : fs[d].by = r}
Phases == {"client", "compile", "run", "server"}

\* C1: in every Outcome sent, ok is true exactly when phase is run and
\* exitCode is 0, and phase is one of client, compile, run, server.
C1_OkIffRunZero ==
    \A r \in Req : \A i \in DOMAIN resp[r] :
        resp[r][i].body # <<>> =>
            LET o == resp[r][i].body[1]
            IN  /\ o.ok <=> (o.phase = "run" /\ o.exitCode = 0)
                /\ o.phase \in Phases

\* A request whose program ran and exited 0 was answered ok.
C1_Witness ==
    \E r \in Req : Done(r) /\ Answered(r) /\ TheOutcome(r).ok
                   /\ TheOutcome(r).phase = "run"

\* C2: whatever fails on the way, a finished request has exactly one response,
\* it carries an Outcome and status 200; an unfinished one has sent nothing.
C2_OneOutcomeAlways200 ==
    \A r \in Req :
        /\ Done(r) => Answered(r)
        /\ ~Done(r) => resp[r] = <<>>

\* A request that timed out in a step and then failed to remove its workspace.
C2_Witness ==
    \E r \in Req : Done(r) /\ Struck(r, "rmtree") /\ Struck(r, "timeout:run")

\* C3: a submission that is empty or all whitespace is answered by the
\* "Empty source received." client Outcome, with no probe run and no
\* workspace made.
C3_BlankRejectedFirst ==
    \A r \in Req :
        (pc[r] \notin {"idle", "validate"}
         /\ \A i \in DOMAIN code[r] : IsSpace(code[r][i]))
        => /\ Done(r)
           /\ resp[r] = <<[status |-> 200,
                           body |-> <<[ok |-> FALSE, phase |-> "client",
                                       stdout |-> "",
                                       stderr |-> "Empty source received.",
                                       exitCode |-> -1]>>]>>
           /\ log[r] = <<>>
           /\ tmp[r] = 0
           /\ OwnDirs(r) = {}

\* A whitespace-only, non-empty submission was answered.
C3_Witness ==
    \E r \in Req : Done(r) /\ code[r] # <<>>
                   /\ \A i \in DOMAIN code[r] : IsSpace(code[r][i])

\* The child of `site` exited with code rc.
Exited(r, site, rc) ==
    \E i \in DOMAIN exits[r] : exits[r][i] = [site |-> site, rc |-> rc]
RemovalError == "PermissionError: cannot remove workspace"

\* C4, on the requests whose workspace removal did not fail: when the compiler
\* exits with rc # 0 the Outcome is phase compile with exitCode rc, ok false,
\* the captured streams passed through, and the execute command never run.
C4_CompileFailurePassedThrough ==
    \A r \in Req : \A rc \in ExitCodes \ {0} :
        (Done(r) /\ Exited(r, "compile", rc) /\ ~Struck(r, "rmtree"))
        => /\ Answered(r)
           /\ TheOutcome(r).ok = FALSE
           /\ TheOutcome(r).phase = "compile"
           /\ TheOutcome(r).exitCode = rc
           /\ comp[r] # <<>>
           /\ TheOutcome(r).stdout = comp[r][1].out
           /\ TheOutcome(r).stderr = comp[r][1].err
           /\ ~Did(r, "run")

\* C5, on the requests whose workspace removal did not fail: when the compiler
\* exits 0 and the program exits with rc, the Outcome is phase run with
\* exitCode rc, ok = (rc = 0) and the captured streams.
C5_RunResultReported ==
    \A r \in Req : \A rc \in ExitCodes :
        (Done(r) /\ Exited(r, "compile", 0) /\ Exited(r, "run", rc)
         /\ ~Struck(r, "rmtree"))
        => /\ Answered(r)
           /\ TheOutcome(r).phase = "run"
           /\ TheOutcome(r).exitCode = rc
           /\ TheOutcome(r).ok = (rc = 0)
           /\ ran[r] # <<>>
           /\ TheOutcome(r).stdout = ran[r][1].out
           /\ TheOutcome(r).stderr = ran[r][1].err

\* What str(TimeoutExpired) reads for the step `site` of request r.
TimeoutText(r, site) ==
    IF site = "compile"
    THEN "TimeoutExpired: Command '" \o kotlinc_bin[r] \o "' timed out after 30 seconds"
    ELSE "TimeoutExpired: Command '" \o java_bin[r] \o "' timed out after 15 seconds"

\* The Outcome of a finished request is the server Outcome with this stderr.
ServerOutcomeWith(r, text) ==
    /\ Answered(r)
    /\ TheOutcome(r) = [ok |-> FALSE, phase |-> "server", stdout |-> "",
                        stderr |-> text, exitCode |-> -1]

\* C6 as stated: a timeout of the compile or the execute command gives the
\* server Outcome with stderr describing the timeout, and after a compile
\* timeout the execute command is not run.
C6_TimeoutAlwaysDescribed ==
    \A r \in Req : \A site \in {"compile", "run"} :
        (Done(r) /\ Struck(r, "timeout:" \o site))
        => /\ ServerOutcomeWith(r, TimeoutText(r, site))
           /\ site = "compile" => ~Did(r, "run")

\* C6 amended: a timeout of the compile or the execute command gives
\* {ok false, phase server, exitCode -1, stdout ""}, never phase compile or
\* run; stderr describes the timeout unless the removal of the workspace
\* fails as well, and then it describes that failure; after a compile timeout
\* the execute command is not run.
C6_TimeoutIsServer ==
    \A r \in Req : \A site \in {"compile", "run"} :
        (Done(r) /\ Struck(r, "timeout:" \o site))
        => /\ ServerOutcomeWith(r, IF Struck(r, "rmtree") THEN RemovalError
                                   ELSE TimeoutText(r, site))
           /\ site = "compile" => ~Did(r, "run")

\* The compile command timed out and the workspace was removed.
C6_Witness ==
    \E r \in Req : Done(r) /\ fault[r] = <<"timeout:compile">>

\* C7: a probe that reports its tool unavailable ends the request with the
\* client Outcome carrying that tool's install guidance; no workspace is made
\* and neither the compile nor the execute command is run.
C7_MissingToolIsClient ==
    \A r \in Req : \A tool \in {"kotlinc", "java"} :
        avail[r][tool] = "no"
        => /\ Done(r)
           /\ \E i \in DOMAIN code[r] : ~IsSpace(code[r][i])
           /\ resp[r] = <<[status |-> 200,
                           body |-> <<[ok |-> FALSE, phase |-> "client",
                                       stdout |-> "",
                                       stderr |->
                                         IF tool = "kotlinc"
                                         THEN "kotlinc not available. Install Kotlin compiler and add it to PATH."
                                         ELSE "java not available. Install JDK 17+ and add it to PATH.",
                                       exitCode |-> -1]>>]>>
           /\ tmp[r] = 0
           /\ OwnDirs(r) = {}
           /\ ~Did(r, "mkdtemp") /\ ~Did(r, "compile") /\ ~Did(r, "run")

\* The runtime probe reported unavailable after the compiler probe passed.
C7_Witness ==
    \E r \in Req : Done(r) /\ avail[r].kotlinc = "yes" /\ avail[r].java = "no"

\* C8 as stated: once the Outcome is produced no directory of the request
\* exists.
C8_NoDirectoryEver ==
    \A r \in Req : Done(r) => OwnDirs(r) = {}

\* C8 amended: once the Outcome is produced no directory of the request
\* exists, unless removing the workspace itself failed; then the directory
\* remains and the Outcome is the server Outcome describing that failure.
C8_NoLeakUnlessRemovalFails ==
    \A r \in Req :
        Done(r) =>
            \/ OwnDirs(r) = {}
            \/ /\ Struck(r, "rmtree")
               /\ ServerOutcomeWith(r, RemovalError)

\* A workspace was made, the program timed out, and the directory is gone.
C8_Witness ==
    \E r \in Req : /\ Done(r) /\ tmp[r] # 0 /\ OwnDirs(r) = {}
                   /\ Struck(r, "timeout:run")

\* C9: a non-timeout failure of workspace creation, of the source write or of
\* starting the compile or execute command gives {ok false, phase server,
\* exitCode -1, stdout ""} with a description in stderr, and no later step is
\* run.
C9_OrchestrationFailureIsServer ==
    \A r \in Req :
        \A f \in {"mkdtemp", "write", "spawn:compile", "spawn:run"} :
            (Done(r) /\ Struck(r, f))
            => /\ ServerOutcomeWith(r,
                     IF Struck(r, "rmtree") THEN RemovalError
                     ELSE IF f \in {"mkdtemp", "write"}
                          THEN "OSError: No space left on device"
                          ELSE "OSError: cannot start process")
               /\ avail[r] = [kotlinc |-> "yes", java |-> "yes"]
               /\ f = "mkdtemp" => ~Did(r, "write")
               /\ f \in {"mkdtemp", "write"} => ~Did(r, "compile")
               /\ f # "spawn:run" => ~Did(r, "run")
               /\ child[r] = <<>>

\* The source write failed in a workspace that had been made.
C9_Witness ==
    \E r \in Req : Done(r) /\ fault[r] = <<"write">> /\ tmp[r] # 0

\* C10: every request received is answered in the end, whether or not its
\* children ever exit (the timer of run() ends each wait), and it starts at
\* most four children.
C10_EveryRequestAnswered ==
    /\ \A r \in Req : (pc[r] # "idle") ~> Done(r)
    /\ [](\A r \in Req :
            Cardinality({i \in DOMAIN log[r] : log[r][i] \in Sites}) <= 4)

\* The submitted program was still running when its timer expired, and the
\* request was answered.
C10_Witness ==
    \E r \in Req : Done(r) /\ Answered(r) /\ fault[r] = <<"timeout:run">>
                   /\ ~Exited(r, "run", 0)

\* The requests whose handler is inside the with block.
InBlock(r) == pc[r] \in {"compile", "run"}

\* The stderr of the server Outcome that answers the failure f of request r.
FaultText(r, f) ==
    CASE f = "rmtree" -> RemovalError
      [] f \in {"mkdtemp", "write"} -> "OSError: No space left on device"
      [] f = "timeout:compile" -> TimeoutText(r, "compile")
      [] f = "timeout:run" -> TimeoutText(r, "run")
      [] f = "spawn:compile" ->
            IF CanSpawn(kotlinc_bin[r]) THEN "OSError: cannot start process"
            ELSE "FileNotFoundError: No such file or directory: '"
                     \o kotlinc_bin[r] \o "'"
      [] f = "spawn:run" ->
            IF CanSpawn(java_bin[r]) THEN "OSError: cannot start process"
            ELSE "FileNotFoundError: No such file or directory: '"
                     \o java_bin[r] \o "'"
      [] OTHER -> "UnicodeDecodeError: 'utf-8' codec can't decode byte"

\* The Outcome of request r as its own submission and the behaviour of its
\* own tools and workspace determine it: nothing of another request enters.
AloneOutcome(r) ==
    IF \A i \in DOMAIN code[r] : IsSpace(code[r][i])
    THEN [ok |-> FALSE, phase |-> "client", stdout |-> "",
          stderr |-> "Empty source received.", exitCode |-> -1]
    ELSE IF avail[r].kotlinc = "no"
    THEN [ok |-> FALSE, phase |-> "client", stdout |-> "",
          stderr |-> "kotlinc not available. Install Kotlin compiler and add it to PATH.",
          exitCode |-> -1]
    ELSE IF avail[r].java = "no"
    THEN [ok |-> FALSE, phase |-> "client", stdout |-> "",
          stderr |-> "java not available. Install JDK 17+ and add it to PATH.",
          exitCode |-> -1]
    ELSE IF fault[r] # <<>>
    THEN [ok |-> FALSE, phase |-> "server", stdout |-> "",
          stderr |-> FaultText(r, fault[r][Len(fault[r])]), exitCode |-> -1]
    ELSE IF ran[r] = <<>>
    THEN [ok |-> FALSE, phase |-> "compile", stdout |-> comp[r][1].out,
          stderr |-> comp[r][1].err, exitCode |-> comp[r][1].rc]
    ELSE [ok |-> ran[r][1].rc = 0, phase |-> "run", stdout |-> ran[r][1].out,
          stderr |-> ran[r][1].err, exitCode |-> ran[r][1].rc]

\* C11: with two requests in flight in any interleaving, a request inside the
\* with block has a directory that exists, that it made itself, that holds
\* its own source (and, once compiled, the jar of its own source) and that
\* is not the directory of the other request; and the Outcome of a finished
\* request is the one its own submission and tool behaviour determine.
C11_OwnWorkspaceOwnOutcome ==
    /\ \A r \in Pair :
          InBlock(r)
          => /\ tmp[r] \in DOMAIN fs
             /\ fs[tmp[r]].by = r
             /\ fs[tmp[r]].src = <<code[r]>>
             /\ fs[tmp[r]].jar # <<>> => fs[tmp[r]].jar[1] = <<code[r]>>
             /\ \A q \in Pair \ {r} : InBlock(q) => tmp[q] # tmp[r]
    /\ \A r \in Pair :
          Done(r) => Answered(r) /\ TheOutcome(r) = AloneOutcome(r)

\* Both requests are inside the with block at once, one already compiled and the
\* other not.
C11_Witness ==
    /\ InBlock(1) /\ InBlock(2)
    /\ tmp[1] # tmp[2]
    /\ fs[tmp[1]].jar # <<>> /\ fs[tmp[2]].jar = <<>>

\* The submissions and the behaviour of tools and file system were the same
\* for the requests a and b.
SameBehaviour(a, b) ==
    /\ code[a] = code[b]
    /\ avail[a] = avail[b]
    /\ exits[a] = exits[b]
    /\ fault[a] = fault[b]
    /\ comp[a] = comp[b]
    /\ ran[a] = ran[b]

\* No request is in flight.
Quiescent == \A r \in Handlers : pc[r] \in {"idle", "done"}

\* C12: two requests served one after the other with the same non-blank
\* submission and the same behaviour of the tools get Outcomes with the same
\* phase and the same exitCode; and once no request is in flight and no
\* workspace removal has failed, the file system is as it was at the start.
C12_SecondRunSameResult ==
    /\ \A a, b \in Pair :
          (Done(a) /\ Done(b) /\ Strip(code[a]) # <<>> /\ SameBehaviour(a, b))
          => /\ Answered(a) /\ Answered(b)
             /\ TheOutcome(a).phase = TheOutcome(b).phase
             /\ TheOutcome(a).exitCode = TheOutcome(b).exitCode
    /\ (Quiescent /\ \A r \in Pair : ~Struck(r, "rmtree")) => DOMAIN fs = {}

\* The same submission was compiled and run twice, the program exiting 1
\* both times, and nothing is left of either request.
C12_Witness ==
    /\ Done(1) /\ Done(2)
    /\ Strip(code[1]) # <<>> /\ SameBehaviour(1, 2)
    /\ fault[1] = <<>>
    /\ Exited(1, "run", 1) /\ Exited(2, "run", 1)
    /\ TheOutcome(1).phase = "run" /\ TheOutcome(2).exitCode = 1
    /\ DOMAIN fs = {}

\* The operations of one request in the order the handler performs them; the
\* removal of the workspace follows whichever of them is the last one made
\* inside the with block.
StepOrder == <<"probe_kotlinc", "probe_java", "mkdtemp", "write", "compile", "run">>
\* The operations of request r but the removal of its workspace.
Steps(r) ==
    IF log[r] # <<>> /\ log[r][Len(log[r])] = "rmtree"
    THEN SubSeq(log[r], 1, Len(log[r]) - 1)
    ELSE log[r]

\* C13: the operations a request has performed are a prefix of probe
\* compiler, probe runtime, create workspace, write source, compile, execute
\* (so each is made at most once, in this order, none skipped), followed at
\* most by the removal of a workspace that was made; none is made before
\* validation passed; the runtime probe follows only a compiler probe that
\* reported available, the workspace only two probes that reported
\* available, compile only a source that was staged, execute only a compile
\* that exited 0.
C13_StepsInOrderOnce ==
    \A r \in Req :
        LET n == Len(Steps(r))
        IN  /\ n <= Len(StepOrder)
            /\ Steps(r) = SubSeq(StepOrder, 1, n)
            /\ Steps(r) # log[r] => n >= 4
            /\ n >= 1 => \E i \in DOMAIN code[r] : ~IsSpace(code[r][i])
            /\ n >= 2 => avail[r].kotlinc = "yes"
            /\ n >= 3 => avail[r].java = "yes"
            /\ n >= 4 => ~Struck(r, "mkdtemp")
            /\ n >= 5 => ~Struck(r, "write")
            /\ n >= 6 => (comp[r] # <<>> /\ comp[r][1].rc = 0
                          /\ exits[r][1] = [site |-> "compile", rc |-> 0])

\* A request went through all the steps.
C13_Witness ==
    \E r \in Req :
        /\ Done(r)
        /\ log[r] = StepOrder \o <<"rmtree">>
        /\ ran[r] # <<>>

\* The tool a probe step is about.
ProbedTool(site) == IF site = "probe_kotlinc" THEN "kotlinc" ELSE "java"
\* What the probe at which request r waits reports if run() ends as c.
ProbeReport(r, c) == Resume(r, Cur(r), c, <<>>).avail[ProbedTool(pc[r])]

\* C14: wherever a request waits for a probe child, the probe reports
\* available exactly for the children that exit within the timeout with exit
\* code 0 or having written something to stdout or stderr; it reports
\* unavailable for a child that exits nonzero having written nothing and for
\* one that is still running when the timer expires.
C14_AvailableIffZeroOrOutput ==
    \A r \in Req :
        (pc[r] \in {"probe_kotlinc", "probe_java"} /\ child[r] # <<>>)
        => /\ \A rc \in ExitCodes, io \in Streams :
                 (ProbeReport(r, RunReturn(rc, io[1], io[2])) = "yes")
                 <=> (rc = 0 \/ io[1] # <<>> \/ io[2] # <<>>)
           /\ ProbeReport(r, Raise(RunTimeoutExpired(child[r][1]))) = "no"

\* A failure struck the probe of `tool` in request r: its child could not be
\* started, ran into the timer, or wrote what run() could not decode.
ProbeFailed(r, tool) ==
    \E i \in DOMAIN fault[r] :
        fault[r][i] \in (IF tool = "kotlinc"
                         THEN {"spawn:probe_kotlinc", "timeout:probe_kotlinc",
                               "decode:probe_kotlinc"}
                         ELSE {"spawn:probe_java", "timeout:probe_java",
                               "decode:probe_java"})

\* C15: a request whose probe of a tool failed with an exception (spawn
\* failure, missing binary, the 8 second timer, undecodable output) is
\* answered at once with the client Outcome that tells to install that tool;
\* the probes wait with a timeout of 8; and an Outcome of phase server never
\* answers a request a probe of which failed.
C15_ProbeFailureIsClient ==
    \A r \in Req :
        /\ ProbeFailed(r, "kotlinc")
           => /\ Done(r) /\ Answered(r) /\ avail[r].kotlinc = "no"
              /\ TheOutcome(r) =
                    [ok |-> FALSE, phase |-> "client", stdout |-> "",
                     stderr |-> "kotlinc not available. Install Kotlin compiler and add it to PATH.",
                     exitCode |-> -1]
        /\ ProbeFailed(r, "java")
           => /\ Done(r) /\ Answered(r) /\ avail[r].java = "no"
              /\ TheOutcome(r) =
                    [ok |-> FALSE, phase |-> "client", stdout |-> "",
                     stderr |-> "java not available. Install JDK 17+ and add it to PATH.",
                     exitCode |-> -1]
        /\ (pc[r] \in {"probe_kotlinc", "probe_java"} /\ child[r] # <<>>)
           => child[r][1].timeout = <<8>>
        /\ (Done(r) /\ Answered(r) /\ TheOutcome(r).phase = "server")
           => (~ProbeFailed(r, "kotlinc") /\ ~ProbeFailed(r, "java")
               /\ avail[r] = [kotlinc |-> "yes", java |-> "yes"])

\* The compiler probe passed and the runtime probe ran into its timer.
C15_Witness ==
    \E r \in Req :
        /\ Done(r) /\ Answered(r)
        /\ fault[r] = <<"timeout:probe_java">>
        /\ avail[r] = [kotlinc |-> "yes", java |-> "no"]
        /\ TheOutcome(r).phase = "client"

\* The compile step or the execute step of request r produced a result: the
\* compiler exited nonzero, or the program was run and exited.
ResultComputed(r) ==
    \/ comp[r] # <<>> /\ comp[r][1].rc # 0
    \/ ran[r] # <<>>

\* C16: when the removal of the workspace fails after the compile or the
\* execute step produced its result, the request is answered exactly once,
\* with the server Outcome (ok false, exitCode -1) that describes the removal
\* failure; the result computed is not sent.
C16_RemovalFailureDiscardsResult ==
    \A r \in Req :
        (ResultComputed(r) /\ Struck(r, "rmtree"))
        => /\ Done(r)
           /\ Len(resp[r]) = 1
           /\ resp[r][1].status = 200
           /\ resp[r][1].body =
                 <<[ok |-> FALSE, phase |-> "server", stdout |-> "",
                    stderr |-> RemovalError, exitCode |-> -1]>>

\* The program ran and exited 0, the removal failed, and the answer is the
\* server Outcome while the directory is still there.
C16_Witness ==
    \E r \in Req :
        /\ Done(r)
        /\ ran[r] # <<>> /\ ran[r][1].rc = 0
        /\ fault[r] = <<"rmtree">>
        /\ TheOutcome(r).phase = "server"
        /\ tmp[r] \in DOMAIN fs

\* C17: in every Outcome sent, phase client or server comes with exitCode -1,
\* empty stdout and ok false; phase compile comes with a nonzero exitCode;
\* and exitCode 0 comes only with phase run.
C17_PhaseFixesExitCode ==
    \A r \in Req : \A i \in DOMAIN resp[r] :
        resp[r][i].body # <<>>
        => LET o == resp[r][i].body[1]
           IN  /\ o.phase \in {"client", "server"}
                  => (o.exitCode = -1 /\ o.stdout = "" /\ o.ok = FALSE)
               /\ o.phase = "compile" => o.exitCode # 0
               /\ o.exitCode = 0 => o.phase = "run"

\* A compiler killed by a signal: the Outcome of phase compile has exitCode
\* -1 too, and here it passes the compiler's stdout on.
C17_Witness ==
    \E r \in Req :
        /\ Done(r) /\ Answered(r)
        /\ TheOutcome(r).phase = "compile"
        /\ TheOutcome(r).exitCode = -1
        /\ TheOutcome(r).stdout = "x"

\* The timeout under which request r waits for its child.
Budget(r) == child[r][1].timeout

\* C18: every child is awaited under a timeout, which is 8 at the two probes,
\* 30 at the compile step and 15 at the execute step, never the runner's
\* default of 20; so a probe is given less time than the program, and the
\* program less than the compiler.
C18_TimeoutBudgets ==
    \A r \in Req :
        child[r] # <<>>
        => /\ Budget(r) # <<>>
           /\ Budget(r)[1] # 20
           /\ pc[r] \in {"probe_kotlinc", "probe_java"} => Budget(r)[1] = 8
           /\ pc[r] = "compile" => Budget(r)[1] = 30
           /\ pc[r] = "run" => Budget(r)[1] = 15
           /\ pc[r] \in {"probe_kotlinc", "probe_java"}
              => (Budget(r)[1] < SiteTimeout("run")[1]
                  /\ SiteTimeout("run")[1] < SiteTimeout("compile")[1])
           /\ pc[r] = "run" => Budget(r)[1] < SiteTimeout("compile")[1]

\* The submitted program is running under its budget of 15, after a compile
\* that exited 0.
C18_Witness ==
    \E r \in Req :
        /\ pc[r] = "run"
        /\ child[r] # <<>>
        /\ child[r][1].timeout = <<15>>
        /\ Exited(r, "compile", 0)

====
